---- MODULE Spec2Model ----
(***************************************************************************)
(* Model of snow_docs/app.py: the `search` command.  The anchors found in  *)
(* the result page are turned into Link records (filtered by -f/--filter), *)
(* then the page / prompt loop runs until a record is opened, the user     *)
(* cancels, or the program fails.                                          *)
(*                                                                         *)
(* Text is modelled as a sequence of one-character strings so that         *)
(* str.lower() and int() are computed character by character.  Python's    *)
(* None is the empty tuple; a printed message is a tuple of its literal    *)
(* part followed by the interpolated values.                               *)
(***************************************************************************)
EXTENDS Integers, Sequences, FiniteSets, TLC

\* ------------------------------------------------------------------ bounds
MaxLen == 2          \* anchor lists of every shape up to this length
MaxLinks == 12       \* well-formed anchor lists up to this length
MaxPageSize == 5     \* --page-size ranges over 0..MaxPageSize

\* ---------------------------------------------------------------- encoding
None == <<>>

\* ------------------------------------------------------- text (str) helpers
UpperLetters == <<"A","B","C","D","E","F","G","H","I","J","K","L","M",
                  "N","O","P","Q","R","S","T","U","V","W","X","Y","Z">>
LowerLetters == <<"a","b","c","d","e","f","g","h","i","j","k","l","m",
                  "n","o","p","q","r","s","t","u","v","w","x","y","z">>
Digits == <<"0","1","2","3","4","5","6","7","8","9">>

\* str.lower() on one character
LowerChar(c) ==
    IF \E k \in 1..26 : UpperLetters[k] = c
    THEN LowerLetters[CHOOSE k \in 1..26 : UpperLetters[k] = c]
    ELSE c

\* the text compared as typed, .lower() left out
lower_C7(s) == s

\* str.lower() (app.py:133)
lower(s) == [k \in 1..Len(s) |-> LowerChar(s[k])]

IsDigit(c) == \E k \in 1..10 : Digits[k] = c
DigitVal(c) == (CHOOSE k \in 1..10 : Digits[k] = c) - 1

RECURSIVE DigitsVal(_)
DigitsVal(s) ==
    IF s = <<>> THEN 0
    ELSE 10 * DigitsVal(SubSeq(s, 1, Len(s) - 1)) + DigitVal(s[Len(s)])

\* the part of an integer literal after its optional sign
IntBody(s) == IF s # <<>> /\ s[1] \in {"+", "-"} THEN Tail(s) ELSE s

\* an integer test that knows digits only, no sign
IsInt_C11(s) == s # <<>> /\ \A k \in 1..Len(s) : IsDigit(s[k])

\* int(prompt) does not raise ValueError (app.py:144-146): an optional sign
\* followed by at least one decimal digit (the texts of Lines hold no blanks
\* or underscores, which int() would also accept)
IsInt(s) == IntBody(s) # <<>> /\ \A k \in 1..Len(IntBody(s)) : IsDigit(IntBody(s)[k])

\* int(prompt) (app.py:145)
int(s) ==
    IF s # <<>> /\ s[1] = "-" THEN 0 - DigitsVal(IntBody(s)) ELSE DigitsVal(IntBody(s))

RECURSIVE NatLine(_)
NatLine(n) == IF n < 10 THEN <<Digits[n + 1]>> ELSE NatLine(n \div 10) \o <<Digits[(n % 10) + 1]>>

\* the decimal text a user types for n
NumLine(n) == IF n < 0 THEN <<"-">> \o NatLine(0 - n) ELSE NatLine(n)

\* what Prompt.ask can return (app.py:133): keywords in several letter cases,
\* every number from -1 to one past the longest list, a signed number, other
\* text and the empty line
Lines ==
    { <<"c","a","n","c","e","l">>, <<"C","A","N","C","E","L">>,
      <<"m","o","r","e">>, <<"M","o","R","e">>,
      <<"b","a","c","k">>, <<"B","a","c","k">>,
      <<"x","y","z">>, <<"X","Y","z">>, <<"m","o","r","e","1">>,
      <<"1","a">>, <<>>, <<"+","1">> }
    \cup { NumLine(n) : n \in (0 - 1)..(MaxLinks + 1) }

\* -------------------------------------------------------------- enum tables
\* class LinkType (app.py:23-25): member name by value
LinkType == [Documentation |-> "doc", KnowledgeBase |-> "knowledge_base"]
LinkTypeValues == {<<"Documentation">>, <<"Knowledge Base">>}
LinkTypeName(v) == IF v = <<"Documentation">> THEN LinkType.Documentation ELSE LinkType.KnowledgeBase

\* class LinkTypeOptions (app.py:28-31): member name by value
LinkTypeOptions == {"doc", "k_base", "both"}

\* the option's value compared where its name is meant
LinkTypeOptionsName_C8(v) == v

LinkTypeOptionsName(v) ==
    IF v = "doc" THEN "doc" ELSE IF v = "k_base" THEN "knowledge_base" ELSE "both"

\* class Link (app.py:34-38)
Link(text, link, link_type) == [text |-> text, link |-> link, link_type |-> link_type]

\* class PromptResult (app.py:122-127)
PromptResult(limits_, num_, reason_, cancel_) ==
    [limits |-> limits_, num |-> num_, reason |-> reason_, cancel |-> cancel_]

\* ----------------------------------------------------- the anchors (input)
AnchorKinds == {"doc", "kb", "nospan", "nohref", "nodiv", "badtype"}

\* the j-th <a class="text-link cursor-pointer"> of the page, of a given shape
Anchor(kind, j) ==
    [span |-> IF kind = "nospan" THEN None ELSE <<"text", j>>,
     href |-> IF kind = "nohref" THEN None ELSE <<"href", j>>,
     div  |-> IF kind = "nodiv" THEN None
              ELSE IF kind = "doc" THEN <<"Documentation">>
              ELSE IF kind = "badtype" THEN <<"Other">>
              ELSE <<"Knowledge Base">>]

\* every anchor list up to MaxLen, of every mix of shapes
ShortPages ==
    UNION { { [j \in 1..n |-> Anchor(ks[j], j)] : ks \in [1..n -> AnchorKinds] } : n \in 0..MaxLen }

\* longer well-formed lists: all Documentation, all Knowledge Base, alternating
PatternKind(p, j) == IF p = "alt" THEN (IF j % 2 = 1 THEN "doc" ELSE "kb") ELSE p
LongPages ==
    { [j \in 1..n |-> Anchor(PatternKind(p, j), j)] : n \in 0..MaxLinks, p \in {"doc", "kb", "alt"} }

Pages == ShortPages \cup LongPages
\* --page-size is any int (app.py:52); zero is accepted like any other size
PageSizes == 0..MaxPageSize

\* ------------------------------------------------------------------- state
VARIABLES
    links_html,   \* soup.find_all(...): the anchors of the result page
    filter,       \* -f/--filter
    page_size,    \* --page-size
    links,        \* the Link records kept so far
    i,            \* 0-based position of the extraction loop
    limits,       \* the window (start, end); None before the loop starts
    typed,        \* what Prompt.ask returned last
    result,       \* the PromptResult of the last prompt; None before
    page,         \* what _display_page printed last; None before
    out,          \* the message search() printed in its last step; None if none
    opened,       \* the URL handed to typer.launch; None if none
    returned,     \* <<code>> of the typer.Exit returned by search(); None while running
    pc            \* extract, display, prompt, launch, done, cancelled, error, crashed

vars == <<links_html, filter, page_size, links, i, limits, typed, result, page, out,
          opened, returned, pc>>

\* ------------------------------------------------------------ _parse_prompt
cancel_kw == <<"c","a","n","c","e","l">>
more_kw == <<"m","o","r","e">>
back_kw == <<"b","a","c","k">>

\* the last-page test on the window's end alone
is_last_page_C6(limits_, page_size_, result_len) == limits_[2] >= result_len

\* app.py:137
is_last_page(limits_, page_size_, result_len) == limits_[2] + page_size_ > result_len

\* a window that scrolls by one record instead of one page
next_limits_C4(limits_, page_size_) == <<limits_[1] + 1, limits_[2] + 1>>

\* app.py:139
next_limits(limits_, page_size_) == <<limits_[1] + page_size_, limits_[2] + page_size_>>

\* the first-page test on the wrong end of the window
is_first_page_C3(limits_) == limits_[2] = 0

\* app.py:141
is_first_page(limits_) == limits_[1] = 0

\* app.py:143
prev_limits(limits_, page_size_) == <<limits_[1] - page_size_, limits_[2] - page_size_>>

\* app.py:148
bad_number(num, limits_, result_len) == num < limits_[1] \/ num > limits_[2] \/ num > result_len

\* app.py:130-150, given the text Prompt.ask returned
_parse_prompt(limits_, page_size_, result_len, text) ==
    LET prompt == lower(text) IN
    IF prompt = cancel_kw THEN PromptResult(limits_, 0, None, TRUE)
    ELSE IF prompt = more_kw THEN
        IF is_last_page(limits_, page_size_, result_len)
        THEN PromptResult(limits_, 0, <<"this is the last page">>, FALSE)
        ELSE PromptResult(next_limits(limits_, page_size_), 0, None, FALSE)
    ELSE IF prompt = back_kw THEN
        IF is_first_page(limits_)
        THEN PromptResult(limits_, 0, <<"cannot go back">>, FALSE)
        ELSE PromptResult(prev_limits(limits_, page_size_), 0, None, FALSE)
    ELSE IF ~IsInt(prompt) THEN PromptResult(limits_, 0, <<"unkown command ", prompt>>, FALSE)
    ELSE IF bad_number(int(prompt), limits_, result_len)
        THEN PromptResult(limits_, 0, <<"please specify the correct number">>, FALSE)
    ELSE PromptResult(limits_, int(prompt) - 1, None, FALSE)

\* ------------------------------------------------------------ _display_page
Min(a, b) == IF a <= b THEN a ELSE b

\* search_results[limits[0] : limits[1]] for 0 <= limits[0] <= limits[1]
Slice(s, lo, hi) == SubSeq(s, lo + 1, Min(hi, Len(s)))

\* app.py:107-119: the numbered lines, the footer and the hints
_display_page(limits_, search_results) ==
    [items  |-> LET shown == Slice(search_results, limits_[1], limits_[2]) IN
                [k \in 1..Len(shown) |->
                    <<(k - 1) + limits_[1] + 1, shown[k].text, shown[k].link_type>>],
     footer |-> <<limits_[1],
                  IF limits_[2] <= Len(search_results) THEN limits_[2] ELSE Len(search_results),
                  Len(search_results)>>,
     more   |-> limits_[2] < Len(search_results),
     back   |-> limits_[1] # 0]

\* ------------------------------------------------------------------ search
Init ==
    /\ links_html \in Pages
    /\ filter \in LinkTypeOptions
    /\ page_size \in PageSizes
    /\ links = <<>>
    /\ i = 0
    /\ limits = None
    /\ typed = None
    /\ result = None
    /\ page = None
    /\ out = <<"[bold blue]Choose the topic[/bold blue]">>
    /\ opened = None
    /\ returned = None
    /\ pc = "extract"

\* app.py:71-88: one iteration of the extraction loop
ExtractLink ==
    /\ pc = "extract"
    /\ i < Len(links_html)
    /\ LET link == links_html[i + 1] IN
       IF link.span = None \/ link.href = None \/ link.div = None
       THEN /\ out' = <<"[red bold]ERROR[/red bold]">>
            /\ returned' = <<1>>
            /\ pc' = "error"
            /\ UNCHANGED <<links, i>>
       ELSE IF link.div \notin LinkTypeValues
       THEN /\ out' = None
            /\ pc' = "crashed"
            /\ UNCHANGED <<links, i, returned>>
       ELSE /\ links' = IF filter # "both" /\ LinkTypeName(link.div) # LinkTypeOptionsName(filter)
                        THEN links
                        ELSE Append(links, Link(link.span, link.href, link.div))
            /\ i' = i + 1
            /\ out' = None
            /\ UNCHANGED <<returned, pc>>
    /\ UNCHANGED <<links_html, filter, page_size, limits, typed, result, page, opened>>

\* app.py:89: the loop over the anchors is over, the window is created
StartPager ==
    /\ pc = "extract"
    /\ i = Len(links_html)
    /\ limits' = <<0, page_size>>
    /\ pc' = "display"
    /\ UNCHANGED <<links_html, filter, page_size, links, i, typed, result, page, out,
                   opened, returned>>

\* app.py:91
DisplayPage ==
    /\ pc = "display"
    /\ page' = _display_page(limits, links)
    /\ pc' = "prompt"
    /\ UNCHANGED <<links_html, filter, page_size, links, i, limits, typed, result, out,
                   opened, returned>>

\* app.py:92-101: one prompt and what the loop does with its result
PromptStep(text) ==
    /\ pc = "prompt"
    /\ typed' = text
    /\ result' = _parse_prompt(limits, page_size, Len(links), text)
    /\ IF result'.cancel
       THEN /\ out' = <<"[red]Canceled">>
            /\ returned' = <<0>>
            /\ pc' = "cancelled"
            /\ UNCHANGED limits
       ELSE IF result'.limits # limits
       THEN /\ limits' = result'.limits
            /\ out' = None
            /\ pc' = "display"
            /\ UNCHANGED returned
       ELSE IF result'.reason = None
       THEN /\ out' = None
            /\ pc' = "launch"
            /\ UNCHANGED <<limits, returned>>
       ELSE /\ out' = result'.reason
            /\ pc' = "display"
            /\ UNCHANGED <<limits, returned>>
    /\ UNCHANGED <<links_html, filter, page_size, links, i, page, opened>>

IsKeyword(text) == lower(text) \in {cancel_kw, more_kw, back_kw}

PromptCancel == \E text \in Lines : lower(text) = cancel_kw /\ PromptStep(text)
PromptMore == \E text \in Lines : lower(text) = more_kw /\ PromptStep(text)
PromptBack == \E text \in Lines : lower(text) = back_kw /\ PromptStep(text)
PromptNumber == \E text \in Lines : ~IsKeyword(text) /\ IsInt(lower(text)) /\ PromptStep(text)
PromptUnknown == \E text \in Lines : ~IsKeyword(text) /\ ~IsInt(lower(text)) /\ PromptStep(text)

\* app.py:102-104: links[result.num] with Python's indexing (negative indices
\* count from the end, anything else out of range raises IndexError)
Launch ==
    /\ pc = "launch"
    /\ IF result.num >= 0 - Len(links) /\ result.num < Len(links)
       THEN /\ opened' = links[(result.num % Len(links)) + 1].link
            /\ out' = <<"[green]Opened[/green]">>
            /\ returned' = <<0>>
            /\ pc' = "done"
       ELSE /\ out' = None
            /\ pc' = "crashed"
            /\ UNCHANGED <<opened, returned>>
    /\ UNCHANGED <<links_html, filter, page_size, links, i, limits, typed, result, page>>

\* the exit status of the process once search() is over: an uncaught exception
\* (ValueError, IndexError) ends it with 1; the typer.Exit objects of app.py:75,
\* 80, 84, 95 and 104 are returned, not raised, so the command ends normally
\* with 0 whatever code they carry.  None while search() runs.
exit_code ==
    IF pc = "crashed" THEN <<1>>
    ELSE IF returned # None THEN <<0>>
    ELSE None

Next ==
    \/ ExtractLink
    \/ StartPager
    \/ DisplayPage
    \/ PromptCancel
    \/ PromptMore
    \/ PromptBack
    \/ PromptNumber
    \/ PromptUnknown
    \/ Launch

Spec == Init /\ [][Next]_vars

\* =================================================================== claims
\* ------------------------------------------------- vocabulary of the claims
N == Len(links)
P == page_size

\* a step that consumes one line of input
Prompted == pc = "prompt" /\ pc' # "prompt"

UpperOf(c) ==
    IF \E k \in 1..26 : LowerLetters[k] = c
    THEN UpperLetters[CHOOSE k \in 1..26 : LowerLetters[k] = c]
    ELSE c

\* text spells word, in any letter case
Spells(text, word) ==
    /\ Len(text) = Len(word)
    /\ \A k \in 1..Len(word) : text[k] \in {word[k], UpperOf(word[k])}

TypedCancel == Spells(typed', <<"c","a","n","c","e","l">>)
TypedMore == Spells(typed', <<"m","o","r","e">>)
TypedBack == Spells(typed', <<"b","a","c","k">>)
TypedNumber == ~TypedCancel /\ ~TypedMore /\ ~TypedBack /\ IsInt(typed')
TypedUnknown == ~TypedCancel /\ ~TypedMore /\ ~TypedBack /\ ~IsInt(typed')

LastPageMsg == <<"this is the last page">>
CannotGoBackMsg == <<"cannot go back">>
CorrectNumberMsg == <<"please specify the correct number">>

\* the loop printed msg and went back to rendering the same window
Rejected(msg) == out' = msg /\ limits' = limits /\ pc' = "display" /\ opened' = None

\* C1: for P >= 1, `more` is rejected with "this is the last page" (window
\* unchanged) iff end >= N, and otherwise moves the window to (start+P, end+P).
C1_MoreRejectedIffEndReachesN ==
    [][ (Prompted /\ TypedMore /\ P >= 1) =>
            IF limits[2] >= N
            THEN Rejected(LastPageMsg)
            ELSE limits' = <<limits[1] + P, limits[2] + P>> ]_vars

\* C2: a number n is accepted iff start < n <= end and n <= N, the selected
\* index then being n - 1; every other number (n = start included) is rejected
\* with "please specify the correct number".  Stated for the page sizes P >= 1.
C2_SelectIffListed ==
    [][ (Prompted /\ TypedNumber /\ P >= 1) =>
            LET n == int(typed') IN
            IF limits[1] < n /\ n <= limits[2] /\ n <= N
            THEN pc' = "launch" /\ result'.num = n - 1
            ELSE Rejected(CorrectNumberMsg) ]_vars

\* C3: for P >= 1, `back` is rejected with "cannot go back" (window unchanged)
\* iff start = 0, and otherwise moves the window to (start-P, end-P).
C3_BackRejectedIffFirstPage ==
    [][ (Prompted /\ TypedBack /\ P >= 1) =>
            IF limits[1] = 0
            THEN Rejected(CannotGoBackMsg)
            ELSE /\ limits' = <<limits[1] - P, limits[2] - P>>
                 /\ out' = None /\ pc' = "display" ]_vars

\* a `back` that moved the window to a page that is not the first one
C3_Witness ==
    /\ pc = "display" /\ P >= 1
    /\ Spells(typed, <<"b","a","c","k">>)
    /\ out = None
    /\ limits[1] > 0

\* C4: for P >= 1, once the window exists, start is a non-negative multiple of
\* P and end - start = P, whatever commands were typed.
C4_WindowAligned ==
    (limits # None /\ P >= 1) =>
        /\ limits[1] >= 0
        /\ limits[1] % P = 0
        /\ limits[2] - limits[1] = P

\* a window two pages in, reached back from a third page
C4_Witness ==
    /\ pc = "prompt" /\ P >= 2
    /\ Spells(typed, <<"b","a","c","k">>)
    /\ limits = <<P, 2 * P>>

\* C5: more on the last page, back on the first page, a number that is not
\* listed or beyond N, and unrecognized text each leave the window as it was,
\* print a message and go on with the loop: nothing is opened, nothing ends.
\* Stated for the page sizes P >= 1.
C5_ErrorsKeepLoopAwaiting ==
    [][ ( /\ Prompted
          /\ P >= 1
          /\ \/ TypedMore /\ limits[2] >= N
             \/ TypedBack /\ limits[1] = 0
             \/ TypedNumber /\ ~(limits[1] < int(typed') /\ int(typed') <= limits[2]
                                 /\ int(typed') <= N)
             \/ TypedUnknown )
        => /\ out' # None
           /\ limits' = limits
           /\ pc' = "display"
           /\ opened' = None
           /\ returned' = None ]_vars

\* C6: with N = 12, P = 5: more takes [0,5) to [5,10); more at [5,10) is
\* rejected with the last-page message; back takes [5,10) to [0,5).  With
\* N = 3, P = 5, more at [0,5) is rejected.
C6_EndToEnd ==
    [][ /\ (Prompted /\ TypedMore /\ N = 12 /\ P = 5 /\ limits = <<0, 5>>)
            => (limits' = <<5, 10>> /\ pc' = "display")
        /\ (Prompted /\ TypedMore /\ N = 12 /\ P = 5 /\ limits = <<5, 10>>)
            => Rejected(LastPageMsg)
        /\ (Prompted /\ TypedBack /\ N = 12 /\ P = 5 /\ limits = <<5, 10>>)
            => (limits' = <<0, 5>> /\ pc' = "display")
        /\ (Prompted /\ TypedMore /\ N = 3 /\ P = 5 /\ limits = <<0, 5>>)
            => Rejected(LastPageMsg) ]_vars

\* the second `more` of the N = 12, P = 5 run has just been rejected
C6_Witness ==
    /\ N = 12 /\ P = 5 /\ limits = <<5, 10>>
    /\ Spells(typed, <<"m","o","r","e">>)
    /\ out = LastPageMsg
    /\ pc = "prompt"

\* C7: `cancel` in any letter case ends the loop in the cancelled state, with
\* nothing opened, and nothing happens after it (no page, no prompt, no URL).
C7_CancelIsTerminal ==
    [][ /\ (Prompted /\ TypedCancel) =>
                /\ pc' = "cancelled"
                /\ opened' = None
                /\ UNCHANGED <<limits, page>>
        /\ (pc = "cancelled") => UNCHANGED vars ]_vars

\* CANCEL typed in capitals on a later page
C7_Witness ==
    /\ pc = "cancelled"
    /\ typed = <<"C","A","N","C","E","L">>
    /\ limits[1] > 0
    /\ opened = None

\* the record made of the j-th anchor
Extracted(j) == Link(links_html[j].span, links_html[j].href, links_html[j].div)

\* the category a filter mode stands for
ModeCategory(mode) == IF mode = "doc" THEN <<"Documentation">> ELSE <<"Knowledge Base">>

KeptByMode(r) == filter = "both" \/ r.link_type = ModeCategory(filter)

\* C8: the paginated list is the extracted sequence itself under mode both,
\* and under doc / k_base the order-preserving subsequence of exactly the
\* records of that category.
C8_FilterKeepsCategory ==
    (limits # None) =>
        links = SelectSeq([j \in 1..Len(links_html) |-> Extracted(j)], KeptByMode)

\* a knowledge-base filter that kept some records and dropped others
C8_Witness ==
    /\ limits # None
    /\ filter = "k_base"
    /\ N >= 2
    /\ N < Len(links_html)

\* C9: from every window where `more` succeeds, `more` and then `back`
\* succeeds and gives the original window.
C9_MoreThenBack ==
    (pc = "prompt") =>
        LET m == _parse_prompt(limits, P, N, <<"m","o","r","e">>) IN
        (m.reason = None) =>
            LET b == _parse_prompt(m.limits, P, N, <<"b","a","c","k">>) IN
            b.reason = None /\ b.limits = limits

\* C10: text that is neither a keyword nor an integer is answered with
\* "unkown command " followed by the text exactly as typed, and the loop goes
\* on with the same window.
C10_UnknownEchoesTyped ==
    [][ (Prompted /\ TypedUnknown) => Rejected(<<"unkown command ", typed'>>) ]_vars

\* the texts that are decimal integers: n, or +n, for the numbers of Lines
NumberText(text, n) == text \in {NumLine(n), <<"+">> \o NumLine(n)}
TypedInteger == \E n \in (0 - 1)..(MaxLinks + 1) : NumberText(typed', n)

\* C11: each line gives exactly one command: cancel, more, back (in any letter
\* case) give Cancel, Advance, Retreat; any other line that is an integer
\* gives Select(n); every remaining line gives Unknown.
C11_OneCommandPerLine ==
    [][ Prompted =>
          IF TypedCancel THEN result' = PromptResult(limits, 0, None, TRUE)
          ELSE IF TypedMore THEN
              result' \in { PromptResult(limits, 0, LastPageMsg, FALSE),
                            PromptResult(<<limits[1] + P, limits[2] + P>>, 0, None, FALSE) }
          ELSE IF TypedBack THEN
              result' \in { PromptResult(limits, 0, CannotGoBackMsg, FALSE),
                            PromptResult(<<limits[1] - P, limits[2] - P>>, 0, None, FALSE) }
          ELSE IF TypedInteger THEN
              \E n \in (0 - 1)..(MaxLinks + 1) :
                  /\ NumberText(typed', n)
                  /\ result' \in { PromptResult(limits, 0, CorrectNumberMsg, FALSE),
                                   PromptResult(limits, n - 1, None, FALSE) }
          ELSE /\ Len(result'.reason) = 2
               /\ result'.reason[1] = "unkown command "
               /\ result'.limits = limits
               /\ ~result'.cancel ]_vars

\* a line that begins like a keyword and a signed number were both classified
C11_Witness ==
    /\ pc = "display"
    /\ typed = <<"m","o","r","e","1">>
    /\ result.reason = <<"unkown command ", <<"m","o","r","e","1">>>>

\* the j-th anchor lacks its text span, its href or its category marker
Malformed(j) ==
    links_html[j].span = None \/ links_html[j].href = None \/ links_html[j].div = None

\* C12: if any anchor is malformed, whatever its position and the filter mode,
\* the window is never created, no page is rendered, no prompt is read, no URL
\* is opened, and the run ends with exit code 1.
C12_MalformedExitsWithOne ==
    (\E j \in 1..Len(links_html) : Malformed(j)) =>
        /\ limits = None /\ page = None /\ typed = None /\ opened = None
        /\ (pc # "extract") => exit_code = <<1>>

\* C13: when a URL has been opened it is that of a record links[idx] with
\* 0 <= idx < N and start <= idx < min(end, N): a record listed on
\* the page the number was typed at.  Stated for the page sizes P >= 1.
C13_OpenedWasListed ==
    (pc = "done" /\ P >= 1) =>
        \E idx \in 0..(N - 1) :
            /\ opened = links[idx + 1].link
            /\ limits[1] <= idx
            /\ idx < Min(limits[2], N)

\* the windows that sequences of `more` and `back` lead to from those of frontier
RECURSIVE WindowsFrom(_, _)
WindowsFrom(seen, frontier) ==
    IF frontier = {} THEN seen
    ELSE WindowsFrom(seen \cup frontier,
                     { _parse_prompt(w, P, N, kw).limits :
                           w \in frontier, kw \in {<<"m","o","r","e">>, <<"b","a","c","k">>} }
                     \ (seen \cup frontier))

\* some line typed at window w selects index idx
Selects(w, idx) ==
    \E text \in Lines :
        LET r == _parse_prompt(w, P, N, text) IN
        ~r.cancel /\ r.limits = w /\ r.reason = None /\ r.num = idx

\* C14: for N >= 1 and P >= 1, every index 0 <= idx < N can be selected after
\* some finite sequence of commands from the initial window (0, P), the
\* records of a final partial page included.
C14_EveryRecordSelectable ==
    (pc = "prompt" /\ typed = None /\ P >= 1 /\ N >= 1) =>
        \A idx \in 0..(N - 1) :
            \E w \in WindowsFrom({}, {<<0, P>>}) : Selects(w, idx)

\* C15: while the loop awaits input, the `more` hint is on the page iff a
\* `more` typed next would move the window, and the `back` hint iff a `back`
\* typed next would.  Stated for the page sizes P >= 1.
C15_HintsMatchCommands ==
    (pc = "prompt" /\ P >= 1) =>
        /\ page.more <=> (_parse_prompt(limits, P, N, <<"m","o","r","e">>).limits # limits)
        /\ page.back <=> (_parse_prompt(limits, P, N, <<"b","a","c","k">>).limits # limits)

\* C16: a `more` or `back` command never ends the loop and never leads to a
\* URL being opened, for every page size, 0 included: after it the loop
\* renders a page again.
C16_PagingNeverEndsLoop ==
    [][ (Prompted /\ (TypedMore \/ TypedBack)) =>
            (pc' = "display" /\ opened' = None /\ returned' = None) ]_vars
====
